---- MODULE Spec2Model ----
(***************************************************************************)
(* A model of crawler.py: the bounded-concurrency crawl of crawl_parallel  *)
(* (one asyncio task per URL, admitted by an asyncio.Semaphore, with the   *)
(* retry loop of process_url) and the sitemap resolution of                *)
(* check_and_get_sitemap_urls / get_urls_from_sitemap.                     *)
(*                                                                         *)
(* asyncio runs one task at a time and switches only at an await, so each  *)
(* action below is the code between two suspension points.                 *)
(***************************************************************************)
EXTENDS Integers, Sequences, FiniteSets, TLC

\* ------------------------------------------------------------------ bounds
MaxUrls == 2          \* the longest list of URLs given to crawl_parallel
MaxConcurrent == 2    \* the largest max_concurrent
MaxRetries == 3       \* the largest max_retries
MaxLocs == 2          \* the most page URLs in one URL-set sitemap
MaxChildren == 2      \* the most child sitemaps listed by one sitemap index
MaxRobotsLines == 2   \* the most lines of a robots.txt

\* ------------------------------------------------------- state of the crawl
VARIABLES
    total_urls,       \* len(urls): the tasks are the entries 1..total_urls
    max_concurrent,   \* parameter of crawl_parallel
    max_retries,      \* parameter of crawl_parallel
    semaphore,        \* the value of asyncio.Semaphore(max_concurrent)
    processed_urls,   \* nonlocal counter of crawl_parallel
    failed_urls,      \* nonlocal counter of crawl_parallel
    pc,               \* pc[i]: where the task process_url(urls[i]) stands
    retry,            \* retry[i]: the loop variable of "for retry in range"
    hist,             \* hist[i]: what each finished attempt of task i met
    arun_calls,       \* arun_calls[i]: crawler.arun calls started by task i
    sleeps,           \* sleeps[i]: asyncio.sleep(2) calls made by task i
    procInc,          \* procInc[i]: increments of processed_urls by task i
    failInc,          \* failInc[i]: increments of failed_urls by task i
    cpc,              \* crawl_parallel itself: "gather" or "returned"
    stats,            \* the dictionary crawl_parallel returns
    progress          \* the processed_urls counts printed by line 248

crawlVars == <<total_urls, max_concurrent, max_retries, semaphore,
               processed_urls, failed_urls, pc, retry, hist, arun_calls,
               sleeps, procInc, failInc, cpc, stats, progress>>

\* ---------------------------------------- state of the resolution and main
VARIABLES
    site,             \* main: base_url, the address given on the command line
    allow_cycles,     \* the site: whether a sitemap index may list a sitemap
                      \* that lists it in turn (or itself)
    rpc,              \* where main / check_and_get_sitemap_urls stands
    base_url,         \* check_and_get_sitemap_urls: base_url
    sitemap_url,      \* check_and_get_sitemap_urls: sitemap_url
    urls,             \* check_and_get_sitemap_urls: urls
    alt_sitemap_url,  \* check_and_get_sitemap_urls: alt_sitemap_url
    line_no,          \* position of "for line in response.text.split"
    stack,            \* the active calls of get_urls_from_sitemap
    web,              \* the sitemap documents the site has served so far
    robots,           \* the robots.txt response the site has served
    requests,         \* every URL requested with requests.get, in order
    direct_urls,      \* what the call on the direct candidate returned
    ret,              \* what check_and_get_sitemap_urls returned to main
    manifest,         \* the list given to save_sitemap_links_to_markdown
    crawl_arg,        \* the list main passes to crawl_parallel
    answers,          \* main: crawl_all and num_urls, what the user typed
    calls,            \* how many calls of check_and_get_sitemap_urls began
    first_ret         \* what the first of two calls returned

resolveVars == <<site, allow_cycles, rpc, base_url, sitemap_url, urls, alt_sitemap_url,
                 line_no, stack, web, robots, requests, direct_urls, ret,
                 manifest, crawl_arg, answers, calls, first_ret>>

vars == <<crawlVars, resolveVars>>

Tasks == 1..total_urls

\* What crawler.arun and process_and_store_document can do on one call.
\* hist records an attempt as "ok" (success, document stored), "storefail"
\* (success, storing raised) or "fetchfail" (success=False, or arun raised:
\* the two branches of the code do the same).
FetchResults == {"success", "fail", "raise"}
StoreResults == {"stored", "raise"}

NoStats == [processed_urls |-> -1, failed_urls |-> -1]

InitCrawl ==
    /\ total_urls \in 0..MaxUrls
    /\ max_concurrent \in 1..MaxConcurrent
    /\ max_retries \in 1..MaxRetries
    /\ semaphore = max_concurrent
    /\ processed_urls = 0
    /\ failed_urls = 0
    /\ pc = [i \in Tasks |-> "pending"]
    /\ retry = [i \in Tasks |-> 0]
    /\ hist = [i \in Tasks |-> <<>>]
    /\ arun_calls = [i \in Tasks |-> 0]
    /\ sleeps = [i \in Tasks |-> 0]
    /\ procInc = [i \in Tasks |-> 0]
    /\ failInc = [i \in Tasks |-> 0]
    /\ cpc = "gather"
    /\ stats = NoStats
    /\ progress = <<>>

\* Acquire with the gate left open: a task enters although no slot is free.
Acquire_NoGate(i) ==
    /\ pc[i] = "pending"
    /\ semaphore' = semaphore - 1
    /\ pc' = [pc EXCEPT ![i] = "in_arun"]
    /\ arun_calls' = [arun_calls EXCEPT ![i] = @ + 1]
    /\ UNCHANGED <<total_urls, max_concurrent, max_retries, processed_urls,
                   failed_urls, retry, hist, sleeps, procInc, failInc, cpc,
                   stats, progress>>
    /\ UNCHANGED resolveVars

\* "async with semaphore" and, with no suspension in between, the first
\* "result = await crawler.arun(...)": the task enters when a slot is free,
\* makes the call and waits for it.
Acquire(i) ==
    /\ pc[i] = "pending"
    /\ semaphore > 0
    /\ semaphore' = semaphore - 1
    /\ pc' = [pc EXCEPT ![i] = "in_arun"]
    /\ arun_calls' = [arun_calls EXCEPT ![i] = @ + 1]
    /\ UNCHANGED <<total_urls, max_concurrent, max_retries, processed_urls,
                   failed_urls, retry, hist, sleeps, procInc, failInc, cpc,
                   stats, progress>>
    /\ UNCHANGED resolveVars

\* AfterFailedAttempt with the test off by one ("retry < max_retries"): the
\* task also sleeps after its last allowed attempt and tries again.
AfterFailedAttempt_OffByOne(i) ==
    IF retry[i] < max_retries
    THEN /\ pc' = [pc EXCEPT ![i] = "sleeping"]
         /\ sleeps' = [sleeps EXCEPT ![i] = @ + 1]
         /\ UNCHANGED <<failed_urls, failInc, semaphore>>
    ELSE /\ failed_urls' = failed_urls + 1
         /\ failInc' = [failInc EXCEPT ![i] = @ + 1]
         /\ pc' = [pc EXCEPT ![i] = "done"]
         /\ semaphore' = semaphore + 1
         /\ UNCHANGED sleeps

\* AfterFailedAttempt that gives the slot back for the time of the backoff
\* sleep (the sleep placed outside the "async with").
AfterFailedAttempt_ReleaseWhileSleeping(i) ==
    IF retry[i] < max_retries - 1
    THEN /\ pc' = [pc EXCEPT ![i] = "sleeping"]
         /\ sleeps' = [sleeps EXCEPT ![i] = @ + 1]
         /\ semaphore' = semaphore + 1
         /\ UNCHANGED <<failed_urls, failInc>>
    ELSE /\ failed_urls' = failed_urls + 1
         /\ failInc' = [failInc EXCEPT ![i] = @ + 1]
         /\ pc' = [pc EXCEPT ![i] = "done"]
         /\ semaphore' = semaphore + 1
         /\ UNCHANGED sleeps

\* AfterFailedAttempt that keeps the slot when the retries are exhausted (an
\* acquire without a release on that path).
AfterFailedAttempt_KeepsSlot(i) ==
    IF retry[i] < max_retries - 1
    THEN /\ pc' = [pc EXCEPT ![i] = "sleeping"]
         /\ sleeps' = [sleeps EXCEPT ![i] = @ + 1]
         /\ UNCHANGED <<failed_urls, failInc, semaphore>>
    ELSE /\ failed_urls' = failed_urls + 1
         /\ failInc' = [failInc EXCEPT ![i] = @ + 1]
         /\ pc' = [pc EXCEPT ![i] = "done"]
         /\ UNCHANGED <<semaphore, sleeps>>

\* The end of an attempt that did not return: "if retry < max_retries - 1"
\* sleeps, else failed_urls += 1 and the loop, the "async with" and the task
\* end (the slot is released).
AfterFailedAttempt(i) ==
    IF retry[i] < max_retries - 1
    THEN /\ pc' = [pc EXCEPT ![i] = "sleeping"]
         /\ sleeps' = [sleeps EXCEPT ![i] = @ + 1]
         /\ UNCHANGED <<failed_urls, failInc, semaphore>>
    ELSE /\ failed_urls' = failed_urls + 1
         /\ failInc' = [failInc EXCEPT ![i] = @ + 1]
         /\ pc' = [pc EXCEPT ![i] = "done"]
         /\ semaphore' = semaphore + 1
         /\ UNCHANGED sleeps

\* ArunReturns that leaves by "return" without giving the slot back (a
\* semaphore acquired and released by hand, the release after the loop).
ArunReturns_KeepsSlot(i, res, store) ==
    /\ pc[i] = "in_arun"
    /\ IF res = "success"
       THEN /\ processed_urls' = processed_urls + 1
            /\ procInc' = [procInc EXCEPT ![i] = @ + 1]
            /\ progress' = Append(progress, processed_urls + 1)
            /\ IF store = "stored"
               THEN /\ hist' = [hist EXCEPT ![i] = Append(@, "ok")]
                    /\ pc' = [pc EXCEPT ![i] = "done"]
                    /\ UNCHANGED <<failed_urls, failInc, sleeps, semaphore>>
               ELSE /\ hist' = [hist EXCEPT ![i] = Append(@, "storefail")]
                    /\ AfterFailedAttempt(i)
       ELSE /\ store = "stored"
            /\ hist' = [hist EXCEPT ![i] = Append(@, "fetchfail")]
            /\ AfterFailedAttempt(i)
            /\ UNCHANGED <<processed_urls, procInc, progress>>
    /\ UNCHANGED <<total_urls, max_concurrent, max_retries, retry,
                   arun_calls, cpc, stats>>
    /\ UNCHANGED resolveVars

\* ArunReturns with a lost update: the task writes back a count that does
\* not include what the other tasks have added since (its own successes
\* plus one), as after a suspension between reading and writing the counter.
ArunReturns_LostUpdate(i, res, store) ==
    /\ pc[i] = "in_arun"
    /\ IF res = "success"
       THEN /\ processed_urls' = procInc[i] + 1
            /\ procInc' = [procInc EXCEPT ![i] = @ + 1]
            /\ progress' = Append(progress, procInc[i] + 1)
            /\ IF store = "stored"
               THEN /\ hist' = [hist EXCEPT ![i] = Append(@, "ok")]
                    /\ pc' = [pc EXCEPT ![i] = "done"]
                    /\ semaphore' = semaphore + 1
                    /\ UNCHANGED <<failed_urls, failInc, sleeps>>
               ELSE /\ hist' = [hist EXCEPT ![i] = Append(@, "storefail")]
                    /\ AfterFailedAttempt(i)
       ELSE /\ store = "stored"
            /\ hist' = [hist EXCEPT ![i] = Append(@, "fetchfail")]
            /\ AfterFailedAttempt(i)
            /\ UNCHANGED <<processed_urls, procInc, progress>>
    /\ UNCHANGED <<total_urls, max_concurrent, max_retries, retry,
                   arun_calls, cpc, stats>>
    /\ UNCHANGED resolveVars

\* crawler.arun returns or raises, and the task runs to its next suspension
\* point. process_and_store_document has no await of its own, so storing
\* runs in the same step. The increment of processed_urls comes before the
\* store, inside the same try block, and the progress line is printed from
\* the new count with no suspension in between.
ArunReturns(i, res, store) ==
    /\ pc[i] = "in_arun"
    /\ IF res = "success"
       THEN /\ processed_urls' = processed_urls + 1
            /\ procInc' = [procInc EXCEPT ![i] = @ + 1]
            /\ progress' = Append(progress, processed_urls + 1)
            /\ IF store = "stored"
               THEN /\ hist' = [hist EXCEPT ![i] = Append(@, "ok")]
                    /\ pc' = [pc EXCEPT ![i] = "done"]
                    /\ semaphore' = semaphore + 1
                    /\ UNCHANGED <<failed_urls, failInc, sleeps>>
               ELSE /\ hist' = [hist EXCEPT ![i] = Append(@, "storefail")]
                    /\ AfterFailedAttempt(i)
       ELSE /\ store = "stored"
            /\ hist' = [hist EXCEPT ![i] = Append(@, "fetchfail")]
            /\ AfterFailedAttempt(i)
            /\ UNCHANGED <<processed_urls, procInc, progress>>
    /\ UNCHANGED <<total_urls, max_concurrent, max_retries, retry,
                   arun_calls, cpc, stats>>
    /\ UNCHANGED resolveVars

\* SleepDone that does not wait for the attempt in progress: the next
\* attempt is started by a timer while crawler.arun has not yet returned.
SleepDone_EarlyStart(i) ==
    /\ pc[i] \in {"sleeping", "in_arun"}
    /\ retry[i] < max_retries - 1
    /\ pc' = [pc EXCEPT ![i] = "in_arun"]
    /\ retry' = [retry EXCEPT ![i] = @ + 1]
    /\ arun_calls' = [arun_calls EXCEPT ![i] = @ + 1]
    /\ UNCHANGED <<total_urls, max_concurrent, max_retries, semaphore,
                   processed_urls, failed_urls, hist, sleeps, procInc,
                   failInc, cpc, stats, progress>>
    /\ UNCHANGED resolveVars

\* asyncio.sleep(2) is over: the for loop takes its next value and the task
\* calls crawler.arun again.
SleepDone(i) ==
    /\ pc[i] = "sleeping"
    /\ pc' = [pc EXCEPT ![i] = "in_arun"]
    /\ retry' = [retry EXCEPT ![i] = @ + 1]
    /\ arun_calls' = [arun_calls EXCEPT ![i] = @ + 1]
    /\ UNCHANGED <<total_urls, max_concurrent, max_retries, semaphore,
                   processed_urls, failed_urls, hist, sleeps, procInc,
                   failInc, cpc, stats, progress>>
    /\ UNCHANGED resolveVars

\* The join given up as soon as one task has counted a failure, as it would
\* be if that task's error were raised out of process_url into gather.
GatherReturns_AbortOnFailure ==
    /\ cpc = "gather"
    /\ \/ \A i \in Tasks : pc[i] = "done"
       \/ \E i \in Tasks : pc[i] = "done" /\ failInc[i] > 0
    /\ cpc' = "returned"
    /\ stats' = [processed_urls |-> processed_urls,
                 failed_urls |-> failed_urls]
    /\ UNCHANGED <<total_urls, max_concurrent, max_retries, semaphore,
                   processed_urls, failed_urls, pc, retry, hist, arun_calls,
                   sleeps, procInc, failInc, progress>>
    /\ UNCHANGED resolveVars

\* "await asyncio.gather(...)" is over when every task has ended; the
\* statistics are then built from the counters and returned.
GatherReturns ==
    /\ cpc = "gather"
    /\ \A i \in Tasks : pc[i] = "done"
    /\ cpc' = "returned"
    /\ stats' = [processed_urls |-> processed_urls,
                 failed_urls |-> failed_urls]
    /\ UNCHANGED <<total_urls, max_concurrent, max_retries, semaphore,
                   processed_urls, failed_urls, pc, retry, hist, arun_calls,
                   sleeps, procInc, failInc, progress>>
    /\ UNCHANGED resolveVars


\* ----------------------------------------------------- URLs as token lists
\* A URL or a line of text is the sequence of its pieces: "https:", "/", a
\* host name, a path segment, a blank. The string operations of the code act
\* on these pieces.
Https == <<"https:", "/", "/">>

\* str.lower(), on the pieces that have capitals
Lower(tok) ==
    CASE tok = "Sitemap_index.xml" -> "sitemap_index.xml"
      [] tok = "Sitemap:" -> "sitemap:"
      [] tok = "SITEMAP:" -> "sitemap:"
      [] tok = "Y" -> "y"
      [] OTHER -> tok

\* the lower-case pieces in which the text "sitemap" occurs
SitemapWords == {"sitemap.xml", "sitemap_index.xml", "sitemap:"}

\* url.rstrip("/")
RECURSIVE rstrip_slash(_)
rstrip_slash(u) ==
    IF Len(u) > 0 /\ u[Len(u)] = "/"
    THEN rstrip_slash(SubSeq(u, 1, Len(u) - 1))
    ELSE u

\* url.startswith(("http://", "https://"))
HasScheme(u) ==
    /\ Len(u) >= 3
    /\ u[1] \in {"http:", "https:"}
    /\ u[2] = "/"
    /\ u[3] = "/"

\* "sitemap" in url.lower()  (the two longer needles of line 103 contain it)
ContainsSitemap(u) == \E k \in 1..Len(u) : Lower(u[k]) \in SitemapWords

\* format_sitemap_url that looks for "sitemap" without lower-casing the URL
format_sitemap_url_CaseSensitive(url) ==
    LET u1 == rstrip_slash(url)
        u2 == IF HasScheme(u1) THEN u1 ELSE Https \o u1
    IN IF \E k \in 1..Len(u2) : u2[k] \in SitemapWords
       THEN u2
       ELSE u2 \o <<"/", "sitemap.xml">>

\* format_sitemap_url: trailing slashes off, "https://" in front of a URL
\* without scheme, and "/sitemap.xml" at the end unless "sitemap" occurs.
format_sitemap_url(url) ==
    LET u1 == rstrip_slash(url)
        u2 == IF HasScheme(u1) THEN u1 ELSE Https \o u1
    IN IF ContainsSitemap(u2) THEN u2 ELSE u2 \o <<"/", "sitemap.xml">>

\* urlparse(base_url): the netloc is what follows "//" up to the next "/"
RECURSIVE UpToSlash(_)
UpToSlash(u) ==
    IF u = <<>> \/ Head(u) = "/" THEN <<>>
    ELSE <<Head(u)>> \o UpToSlash(Tail(u))

\* f"{parsed_url.scheme}://{parsed_url.netloc}/robots.txt"
RobotsUrl(base) ==
    SubSeq(base, 1, 3) \o UpToSlash(SubSeq(base, 4, Len(base)))
        \o <<"/", "robots.txt">>

\* str.strip(), of blanks
RECURSIVE lstrip(_)
lstrip(t) == IF t # <<>> /\ Head(t) = " " THEN lstrip(Tail(t)) ELSE t

RECURSIVE rstrip(_)
rstrip(t) ==
    IF t # <<>> /\ t[Len(t)] = " "
    THEN rstrip(SubSeq(t, 1, Len(t) - 1))
    ELSE t

\* line.lower().startswith('sitemap:')
IsSitemapDirective(line) == line # <<>> /\ Lower(line[1]) = "sitemap:"

\* line.split(':', 1)[1].strip(): what follows the first colon
DirectiveUrl(line) == rstrip(lstrip(Tail(line)))

\* ------------------------------------------------------ the site's content
\* The addresses given to main.
SiteInputs ==
    { <<"a.test">>,
      <<"http:", "/", "/", "a.test", "/", "/">>,
      <<"a.test", "/", "Sitemap_index.xml", "/">>,
      Https \o <<"a.test", "/", "docs", "/">> }

\* The sitemap documents the site can serve; any other URL is a 404.
U1 == Https \o <<"a.test", "/", "sitemap.xml">>
U2 == Https \o <<"a.test", "/", "Sitemap_index.xml">>
U3 == Https \o <<"a.test", "/", "urls.xml">>
SitemapUrls == {U1, U2, U3}
\* The sitemaps a sitemap index can list (U2 is itself the direct candidate
\* of one of the addresses, so an index can be reached from itself).
ChildUrls == {U2, U3}

Section(u) == CASE u = U1 -> "main" [] u = U2 -> "part" [] OTHER -> "extra"
PageNames == <<"p1", "p2", "p3", "p4">>

\* the k-th page URL listed by the URL set at u
Page(u, k) == Https \o <<"a.test", "/", Section(u), "/", PageNames[k]>>

SeqsUpTo(S, n) == UNION {[1..k -> S] : k \in 0..n}

\* A response to the GET of a sitemap URL: a failure (the request raises,
\* the status is not 2xx or the body is not XML: each raises inside the try
\* block of get_urls_from_sitemap), a URL set of n pages, or a sitemap index
\* listing children.
Docs ==
    [kind : {"fail"}, n : {0}, children : {<<>>}]
      \cup [kind : {"urlset"}, n : 0..MaxLocs, children : {<<>>}]
      \cup [kind : {"index"}, n : {0},
            children : SeqsUpTo(ChildUrls, MaxChildren)]
NotYet == [kind |-> "notyet", n |-> 0, children |-> <<>>]
Missing == [kind |-> "fail", n |-> 0, children |-> <<>>]

\* The interpreter's limit on nested calls (sys.getrecursionlimit), far
\* above the depth of any chain of distinct sitemaps: here, the number of
\* sitemaps there are.
RecursionLimit == Cardinality(SitemapUrls)

\* [loc.text for loc in root.findall(".//ns:loc", namespace)]
Locs(u, d) ==
    IF d.kind = "urlset" THEN [k \in 1..d.n |-> Page(u, k)] ELSE d.children

\* The lines a robots.txt is made of, and the responses to its GET.
RobotLines ==
    { <<"Sitemap:", " ">> \o U3,
      <<"SITEMAP:">> \o U2 \o <<" ">>,
      <<"User-agent:", " ", "*">> }
RobotsDocs ==
    [status : {"neterr", "404"}, lines : {<<>>}]
      \cup [status : {"200"}, lines : SeqsUpTo(RobotLines, MaxRobotsLines)]
NoRobots == [status |-> "notyet", lines |-> <<>>]

\* What int(input(...)) can give: a number, or ValueError.
NumInputs ==
    {[valid |-> FALSE, value |-> 0]}
      \cup {[valid |-> TRUE, value |-> v] : v \in (-1)..(MaxLocs + 1)}
CrawlAllInputs == {"y", "Y", "n"}

Min(a, b) == IF a < b THEN a ELSE b
Max(a, b) == IF a > b THEN a ELSE b

\* ------------------------------------------------------------- resolution
\* An active call of get_urls_from_sitemap: before its GET ("fetch") or in
\* the loop over the children of a sitemap index ("loop").
Frame(u) ==
    [url |-> u, phase |-> "fetch", sitemap_urls |-> <<>>, idx |-> 1,
     urls |-> <<>>]

NoRet == [sitemap_url |-> <<>>, urls |-> <<>>]
NoManifest == [written |-> FALSE, urls |-> <<>>]
NotAsked == [valid |-> FALSE, value |-> -9]
NoAnswers == [crawl_all |-> "", num_urls |-> NotAsked]

InitResolve ==
    /\ site \in SiteInputs
    /\ allow_cycles = FALSE
    /\ rpc = "start"
    /\ base_url = <<>>
    /\ sitemap_url = <<>>
    /\ urls = <<>>
    /\ alt_sitemap_url = <<>>
    /\ line_no = 0
    /\ stack = <<>>
    /\ web = [u \in SitemapUrls |-> NotYet]
    /\ robots = NoRobots
    /\ requests = <<>>
    /\ direct_urls = <<>>
    /\ ret = NoRet
    /\ manifest = NoManifest
    /\ crawl_arg = <<>>
    /\ answers = NoAnswers
    /\ calls = 0
    /\ first_ret = NoRet

\* main calls check_and_get_sitemap_urls(base_url): the URL is normalized,
\* the candidate is formed and get_urls_from_sitemap is called on it.
CheckStart ==
    /\ rpc = "start"
    /\ LET b0 == rstrip_slash(site)
           b == IF HasScheme(b0) THEN b0 ELSE Https \o b0
       IN /\ base_url' = b
          /\ sitemap_url' = format_sitemap_url(b)
          /\ stack' = <<Frame(format_sitemap_url(b))>>
    /\ rpc' = "direct"
    /\ calls' = calls + 1
    /\ UNCHANGED <<site, allow_cycles, first_ret, answers,
                   urls, alt_sitemap_url, line_no, web, robots,
                   requests, direct_urls, ret, manifest, crawl_arg>>
    /\ UNCHANGED crawlVars

\* ReturnToIndex that puts a child's URLs in front of those gathered so far.
ReturnToIndex_Prepend(result, rest) ==
    LET parent == rest[Len(rest)]
    IN /\ stack' = [rest EXCEPT ![Len(rest)] =
                       [parent EXCEPT !.urls = result \o @, !.idx = @ + 1]]
       /\ UNCHANGED <<rpc, urls, direct_urls, sitemap_url, line_no, ret>>

\* ReturnToIndex that gives up the remaining children of an index when one
\* child has yielded nothing.
ReturnToIndex_StopOnEmpty(result, rest) ==
    LET parent == rest[Len(rest)]
    IN /\ stack' = [rest EXCEPT ![Len(rest)] =
                       [parent EXCEPT
                           !.urls = @ \o result,
                           !.idx = IF result = <<>>
                                   THEN Len(parent.sitemap_urls) + 1
                                   ELSE @ + 1]]
       /\ UNCHANGED <<rpc, urls, direct_urls, sitemap_url, line_no, ret>>

\* "sub_urls = get_urls_from_sitemap(...); urls.extend(sub_urls)": a child
\* call hands its list to the loop of the index that made it.
ReturnToIndex(result, rest) ==
    LET parent == rest[Len(rest)]
    IN /\ stack' = [rest EXCEPT ![Len(rest)] =
                       [parent EXCEPT !.urls = @ \o result, !.idx = @ + 1]]
       /\ UNCHANGED <<rpc, urls, direct_urls, sitemap_url, line_no, ret>>

\* ReturnToDirect with a list that outlives the call (a list kept as a
\* default argument or a global): the URLs found are added to those an
\* earlier call left behind.
ReturnToDirect_Accumulate(result) ==
    /\ stack' = <<>>
    /\ urls' = urls \o result
    /\ direct_urls' = result
    /\ UNCHANGED <<sitemap_url, line_no>>
    /\ IF result # <<>>
       THEN /\ rpc' = "resolved"
            /\ ret' = [sitemap_url |-> sitemap_url, urls |-> urls \o result]
       ELSE /\ rpc' = "robots"
            /\ UNCHANGED ret

\* "urls = get_urls_from_sitemap(sitemap_url)": with URLs the function
\* returns them at once, without them it turns to robots.txt.
ReturnToDirect(result) ==
    /\ stack' = <<>>
    /\ urls' = result
    /\ direct_urls' = result
    /\ UNCHANGED <<sitemap_url, line_no>>
    /\ IF result # <<>>
       THEN /\ rpc' = "resolved"
            /\ ret' = [sitemap_url |-> sitemap_url, urls |-> result]
       ELSE /\ rpc' = "robots"
            /\ UNCHANGED ret

\* ReturnToAlt without the break: the loop over the lines goes on after a
\* directive whose sitemap has yielded URLs.
ReturnToAlt_NoBreak(result) ==
    /\ stack' = <<>>
    /\ urls' = result
    /\ UNCHANGED <<direct_urls, ret>>
    /\ sitemap_url' = IF result # <<>> THEN alt_sitemap_url ELSE sitemap_url
    /\ rpc' = "scan"
    /\ line_no' = line_no + 1

\* "urls = get_urls_from_sitemap(alt_sitemap_url)": with URLs the loop over
\* the lines is left and the function returns, without them the loop goes on.
ReturnToAlt(result) ==
    /\ stack' = <<>>
    /\ urls' = result
    /\ UNCHANGED direct_urls
    /\ IF result # <<>>
       THEN /\ sitemap_url' = alt_sitemap_url
            /\ rpc' = "resolved"
            /\ ret' = [sitemap_url |-> alt_sitemap_url, urls |-> result]
            /\ UNCHANGED line_no
       ELSE /\ rpc' = "scan"
            /\ line_no' = line_no + 1
            /\ UNCHANGED <<sitemap_url, ret>>

\* The call on top of the stack returns result ("return urls", "return []").
Return(result) ==
    LET rest == SubSeq(stack, 1, Len(stack) - 1)
    IN IF rest # <<>> THEN ReturnToIndex(result, rest)
       ELSE IF rpc = "direct" THEN ReturnToDirect(result)
       ELSE ReturnToAlt(result)

\* the sitemaps being resolved: the URLs of the active calls
Active == {stack[j].url : j \in 1..Len(stack)}

\* The document at u becomes d when u is requested for the first time, and
\* stays what it is afterwards. On a site without cycles an index lists no
\* sitemap that is being resolved.
Serve(u, d) ==
    IF u \notin SitemapUrls THEN d = Missing /\ UNCHANGED web
    ELSE IF web[u] = NotYet
    THEN /\ d \in Docs
         /\ allow_cycles \/ \A k \in 1..Len(d.children) :
                                d.children[k] \notin Active
         /\ web' = [web EXCEPT ![u] = d]
    ELSE d = web[u] /\ UNCHANGED web

\* SitemapFetch with "except requests.RequestException" in place of "except
\* Exception": the RecursionError of the interpreter's limit is not caught
\* and ends the resolution.
SitemapFetch_NarrowExcept(d) ==
    /\ stack # <<>>
    /\ LET top == stack[Len(stack)]
       IN /\ top.phase = "fetch"
          /\ IF Len(stack) > RecursionLimit
             THEN /\ d = Missing
                  /\ rpc' = "error"
                  /\ stack' = <<>>
                  /\ UNCHANGED <<web, requests, urls, direct_urls,
                                 sitemap_url, line_no, ret>>
             ELSE /\ Serve(top.url, d)
                  /\ requests' = Append(requests, top.url)
                  /\ IF d.kind = "fail" THEN Return(<<>>)
                     ELSE IF d.kind = "urlset" THEN Return(Locs(top.url, d))
                     ELSE /\ stack' = [stack EXCEPT ![Len(stack)] =
                                [top EXCEPT !.phase = "loop",
                                            !.sitemap_urls = Locs(top.url, d)]]
                          /\ UNCHANGED <<rpc, urls, direct_urls, sitemap_url,
                                         line_no, ret>>
    /\ UNCHANGED <<site, allow_cycles, calls, first_ret, answers,
                   base_url, alt_sitemap_url, robots, manifest, crawl_arg>>
    /\ UNCHANGED crawlVars

\* The body of get_urls_from_sitemap up to the test of is_sitemap_index:
\* requests.get, raise_for_status and ElementTree.fromstring. An error of any
\* of them is caught and [] is returned; a URL set returns its locs; a
\* sitemap index starts the loop over its locs. Past the interpreter's
\* limit of nested calls the call ends in RecursionError, caught likewise.
SitemapFetch(d) ==
    /\ stack # <<>>
    /\ LET top == stack[Len(stack)]
       IN /\ top.phase = "fetch"
          /\ IF Len(stack) > RecursionLimit
             THEN /\ d = Missing
                  /\ Return(<<>>)
                  /\ UNCHANGED <<web, requests>>
             ELSE /\ Serve(top.url, d)
                  /\ requests' = Append(requests, top.url)
                  /\ IF d.kind = "fail" THEN Return(<<>>)
                     ELSE IF d.kind = "urlset" THEN Return(Locs(top.url, d))
                     ELSE /\ stack' = [stack EXCEPT ![Len(stack)] =
                                [top EXCEPT !.phase = "loop",
                                            !.sitemap_urls = Locs(top.url, d)]]
                          /\ UNCHANGED <<rpc, urls, direct_urls, sitemap_url,
                                         line_no, ret>>
    /\ UNCHANGED <<site, allow_cycles, calls, first_ret, answers,
                   base_url, alt_sitemap_url, robots, manifest,
                   crawl_arg>>
    /\ UNCHANGED crawlVars

\* "for sub_sitemap_url in sitemap_urls": the next child is resolved by a
\* nested call, and after the last one "return urls".
IndexLoop ==
    /\ stack # <<>>
    /\ LET top == stack[Len(stack)]
       IN /\ top.phase = "loop"
          /\ IF top.idx <= Len(top.sitemap_urls)
             THEN /\ stack' = Append(stack, Frame(top.sitemap_urls[top.idx]))
                  /\ UNCHANGED <<rpc, urls, direct_urls, sitemap_url,
                                 line_no, ret>>
             ELSE Return(top.urls)
    /\ UNCHANGED <<site, allow_cycles, calls, first_ret, answers,
                   base_url, alt_sitemap_url, web, robots, requests,
                   manifest, crawl_arg>>
    /\ UNCHANGED crawlVars

\* "response = requests.get(robots_url, ...)": an error is caught, a status
\* other than 200 is passed over, and both return (sitemap_url, urls); a 200
\* starts the loop over the lines. The site's robots.txt becomes r when it
\* is requested for the first time and stays what it is afterwards.
RobotsFetch(r) ==
    /\ rpc = "robots"
    /\ IF robots = NoRobots THEN r \in RobotsDocs ELSE r = robots
    /\ robots' = r
    /\ requests' = Append(requests, RobotsUrl(base_url))
    /\ IF r.status = "200"
       THEN /\ rpc' = "scan"
            /\ line_no' = 1
            /\ UNCHANGED ret
       ELSE /\ rpc' = "resolved"
            /\ ret' = [sitemap_url |-> sitemap_url, urls |-> urls]
            /\ UNCHANGED line_no
    /\ UNCHANGED <<site, allow_cycles, calls, first_ret, answers,
                   base_url, sitemap_url, urls, alt_sitemap_url, stack,
                   web, direct_urls, manifest, crawl_arg>>
    /\ UNCHANGED crawlVars

\* ScanLine that passes the directive's URL through format_sitemap_url
\* before resolving it.
ScanLine_Reformat ==
    /\ rpc = "scan"
    /\ IF line_no > Len(robots.lines)
       THEN /\ rpc' = "resolved"
            /\ ret' = [sitemap_url |-> sitemap_url, urls |-> urls]
            /\ UNCHANGED <<line_no, alt_sitemap_url, stack>>
       ELSE IF IsSitemapDirective(robots.lines[line_no])
       THEN /\ alt_sitemap_url' =
                  format_sitemap_url(DirectiveUrl(robots.lines[line_no]))
            /\ stack' = <<Frame(format_sitemap_url(
                                   DirectiveUrl(robots.lines[line_no])))>>
            /\ rpc' = "alt"
            /\ UNCHANGED <<line_no, ret>>
       ELSE /\ line_no' = line_no + 1
            /\ UNCHANGED <<rpc, ret, alt_sitemap_url, stack>>
    /\ UNCHANGED <<site, allow_cycles, calls, first_ret, answers,
                   base_url, sitemap_url, urls, web,
                   robots, requests, direct_urls, manifest, crawl_arg>>
    /\ UNCHANGED crawlVars

\* "for line in response.text.split('\n')": a sitemap directive is resolved
\* with get_urls_from_sitemap, any other line is passed over; after the last
\* line the function returns (sitemap_url, urls).
ScanLine ==
    /\ rpc = "scan"
    /\ IF line_no > Len(robots.lines)
       THEN /\ rpc' = "resolved"
            /\ ret' = [sitemap_url |-> sitemap_url, urls |-> urls]
            /\ UNCHANGED <<line_no, alt_sitemap_url, stack>>
       ELSE IF IsSitemapDirective(robots.lines[line_no])
       THEN /\ alt_sitemap_url' = DirectiveUrl(robots.lines[line_no])
            /\ stack' = <<Frame(DirectiveUrl(robots.lines[line_no]))>>
            /\ rpc' = "alt"
            /\ UNCHANGED <<line_no, ret>>
       ELSE /\ line_no' = line_no + 1
            /\ UNCHANGED <<rpc, ret, alt_sitemap_url, stack>>
    /\ UNCHANGED <<site, allow_cycles, calls, first_ret, answers,
                   base_url, sitemap_url, urls, web, robots, requests,
                   direct_urls, manifest, crawl_arg>>
    /\ UNCHANGED crawlVars

\* sitemap_urls[:n]: the first n entries, all of them when n is larger than
\* the list, and all but the last -n when n is negative
Slice(list, n) ==
    IF n >= 0 THEN SubSeq(list, 1, Min(n, Len(list)))
    ELSE SubSeq(list, 1, Max(0, Len(list) + n))

\* MainDecide without "num_urls = max(1, min(num_urls, len(sitemap_urls)))":
\* the number typed is used as it is.
MainDecide_NoClamp(crawl_all, num) ==
    /\ rpc = "resolved"
    /\ rpc' = "crawl"
    /\ IF ret.urls # <<>>
       THEN /\ manifest' = [written |-> TRUE, urls |-> ret.urls]
            /\ crawl_all \in CrawlAllInputs
            /\ IF Lower(crawl_all) = "y"
               THEN /\ crawl_arg' = ret.urls
                    /\ num = NotAsked
               ELSE /\ num \in NumInputs
                    /\ IF num.valid
                       THEN crawl_arg' = Slice(ret.urls, num.value)
                       ELSE crawl_arg' = <<site>>
            /\ answers' = [crawl_all |-> crawl_all, num_urls |-> num]
       ELSE /\ crawl_arg' = <<site>>
            /\ crawl_all = "" /\ num = NotAsked
            /\ UNCHANGED <<manifest, answers>>
    /\ UNCHANGED <<site, allow_cycles, calls, first_ret,
                   base_url, sitemap_url, urls, alt_sitemap_url,
                   line_no, stack, web, robots, requests, direct_urls, ret>>
    /\ UNCHANGED crawlVars

\* main after the resolution: with URLs the manifest is written and the
\* user chooses all of them, the first num_urls of them (clamped), or, on a
\* number that does not parse, the base URL alone; without URLs the base URL
\* alone is crawled. A question that is not asked has no answer ("" and
\* NotAsked).
MainDecide(crawl_all, num) ==
    /\ rpc = "resolved"
    /\ rpc' = "crawl"
    /\ IF ret.urls # <<>>
       THEN /\ manifest' = [written |-> TRUE, urls |-> ret.urls]
            /\ crawl_all \in CrawlAllInputs
            /\ IF Lower(crawl_all) = "y"
               THEN /\ crawl_arg' = ret.urls
                    /\ num = NotAsked
               ELSE /\ num \in NumInputs
                    /\ IF num.valid
                       THEN crawl_arg' =
                              Slice(ret.urls,
                                    Max(1, Min(num.value, Len(ret.urls))))
                       ELSE crawl_arg' = <<site>>
            /\ answers' = [crawl_all |-> crawl_all, num_urls |-> num]
       ELSE /\ crawl_arg' = <<site>>
            /\ crawl_all = "" /\ num = NotAsked
            /\ UNCHANGED <<manifest, answers>>
    /\ UNCHANGED <<site, allow_cycles, calls, first_ret,
                   base_url, sitemap_url, urls, alt_sitemap_url,
                   line_no, stack, web, robots, requests, direct_urls, ret>>
    /\ UNCHANGED crawlVars

\* check_and_get_sitemap_urls has returned and is called a second time on
\* the same address; the site serves the documents it served before. What
\* the first call returned is kept aside, and everything else the first
\* call wrote is left as it is.
CallAgain ==
    /\ rpc = "resolved"
    /\ calls = 1
    /\ first_ret' = ret
    /\ ret' = NoRet
    /\ rpc' = "start"
    /\ UNCHANGED <<site, allow_cycles, base_url, sitemap_url, urls,
                   alt_sitemap_url, line_no, stack, web, robots, requests,
                   direct_urls, manifest, crawl_arg, answers, calls>>
    /\ UNCHANGED crawlVars

\* crawl_parallel has not been called
IdleCrawl ==
    /\ total_urls = 0
    /\ max_concurrent = 1
    /\ max_retries = 1
    /\ semaphore = 1
    /\ processed_urls = 0
    /\ failed_urls = 0
    /\ pc = <<>>
    /\ retry = <<>>
    /\ hist = <<>>
    /\ arun_calls = <<>>
    /\ sleeps = <<>>
    /\ procInc = <<>>
    /\ failInc = <<>>
    /\ cpc = "idle"
    /\ stats = NoStats
    /\ progress = <<>>

\* the resolution is over and not looked at
IdleResolve ==
    /\ site = <<"a.test">>
    /\ allow_cycles = FALSE
    /\ rpc = "idle"
    /\ base_url = <<>>
    /\ sitemap_url = <<>>
    /\ urls = <<>>
    /\ alt_sitemap_url = <<>>
    /\ line_no = 0
    /\ stack = <<>>
    /\ web = [u \in SitemapUrls |-> NotYet]
    /\ robots = NoRobots
    /\ requests = <<>>
    /\ direct_urls = <<>>
    /\ ret = NoRet
    /\ manifest = NoManifest
    /\ crawl_arg = <<>>
    /\ answers = NoAnswers
    /\ calls = 0
    /\ first_ret = NoRet

\* ------------------------------------------------ the crawl: crawl_parallel
Init == InitCrawl /\ IdleResolve

Next ==
    \/ \E i \in Tasks : Acquire(i)
    \/ \E i \in Tasks : \E res \in FetchResults : \E store \in StoreResults :
          ArunReturns(i, res, store)
    \/ \E i \in Tasks : SleepDone(i)
    \/ GatherReturns

Spec == Init /\ [][Next]_vars

\* The crawl under a fair event loop: as long as some task can take a step
\* (a slot is free for a waiting task, a crawler.arun call or a sleep is
\* due to end, the join can return), a step is taken.
FairSpec == Spec /\ WF_vars(Next)

\* ------------------------- the resolution: main up to its crawl_parallel call
InitR == InitResolve /\ IdleCrawl

NextR ==
    \/ CheckStart
    \/ \E d \in Docs : SitemapFetch(d)
    \/ IndexLoop
    \/ \E r \in RobotsDocs : RobotsFetch(r)
    \/ ScanLine
    \/ \E crawl_all \in CrawlAllInputs \cup {""} :
          \E num \in NumInputs \cup {NotAsked} : MainDecide(crawl_all, num)

SpecResolve == InitR /\ [][NextR]_vars

\* ------------------- two calls of check_and_get_sitemap_urls, one site
NextTwice ==
    \/ CheckStart
    \/ \E d \in Docs : SitemapFetch(d)
    \/ IndexLoop
    \/ \E r \in RobotsDocs : RobotsFetch(r)
    \/ ScanLine
    \/ CallAgain

SpecTwice == InitR /\ [][NextTwice]_vars

\* ------------- the resolution on sites whose sitemap indexes may form cycles
InitCycles ==
    /\ site \in SiteInputs
    /\ allow_cycles \in BOOLEAN
    /\ rpc = "start"
    /\ base_url = <<>>
    /\ sitemap_url = <<>>
    /\ urls = <<>>
    /\ alt_sitemap_url = <<>>
    /\ line_no = 0
    /\ stack = <<>>
    /\ web = [u \in SitemapUrls |-> NotYet]
    /\ robots = NoRobots
    /\ requests = <<>>
    /\ direct_urls = <<>>
    /\ ret = NoRet
    /\ manifest = NoManifest
    /\ crawl_arg = <<>>
    /\ answers = NoAnswers
    /\ calls = 0
    /\ first_ret = NoRet
    /\ IdleCrawl

\* The call of get_urls_from_sitemap on the direct candidate, up to its
\* return to check_and_get_sitemap_urls.
NextCycles ==
    \/ CheckStart
    \/ \E d \in Docs : SitemapFetch(d)
    \/ IndexLoop

\* Every request is answered and the interpreter goes on running: as long
\* as the call can take a step, it takes one.
SpecCycles == InitCycles /\ [][NextCycles]_vars /\ WF_vars(NextCycles)

\* ------------------------------------------------- helpers of the formulas
RECURSIVE SumOver(_, _)
SumOver(f, S) ==
    IF S = {} THEN 0
    ELSE LET x == CHOOSE y \in S : TRUE IN f[x] + SumOver(f, S \ {x})

InArun == {i \in Tasks : pc[i] = "in_arun"}

FetchSucceeded(r) == r \in {"ok", "storefail"}

\* the attempts of h on which the Fetch Client reported success
Successes(h) == {k \in 1..Len(h) : FetchSucceeded(h[k])}

\* every finished attempt of task i was a failure of the Fetch Client
AlwaysFailing(i) == Successes(hist[i]) = {}

\* task i met k fetch failures and then a success of the Fetch Client
FailsThenSucceeds(i, k) ==
    /\ k + 1 \in Successes(hist[i])
    /\ \A j \in 1..k : ~FetchSucceeded(hist[i][j])

\* ------------------------------------------------------------------ C1
\* C1: at every instant the number of tasks inside crawler.arun is at most
\* max_concurrent, for every max_concurrent >= 1, every number of URLs and
\* every interleaving of the tasks.
C1_InFlightBounded == Cardinality(InArun) <= max_concurrent

\* C1 witness: the gate is full while a further URL waits outside it.
C1_Witness ==
    /\ Cardinality(InArun) = max_concurrent
    /\ \E i \in Tasks : pc[i] = "pending"

\* ------------------------------------------------------------------ C2
\* C2 (as claimed): when crawl_parallel returns, processed_urls + failed_urls
\* equals the number of URLs given, whatever the Fetch Client and the
\* Persistence Sink did.
C2_CountsAddUp ==
    cpc = "returned" =>
        stats.processed_urls + stats.failed_urls = total_urls

\* ------------------------------------------------------------------ C3
\* C3: a URL whose Fetch Client call fails on every attempt gets exactly
\* max_retries calls of crawler.arun, one sleep before each call but the
\* first (max_retries - 1 in all, none after the last attempt), and then one
\* increment of failed_urls and none of processed_urls; the task ends
\* normally.
C3_AlwaysFailingUrl ==
    \A i \in Tasks : AlwaysFailing(i) =>
        /\ pc[i] = "in_arun" => sleeps[i] = arun_calls[i] - 1
        /\ pc[i] = "sleeping" =>
              /\ sleeps[i] = arun_calls[i]
              /\ arun_calls[i] < max_retries
        /\ pc[i] # "done" => failInc[i] = 0
        /\ pc[i] = "done" =>
              /\ arun_calls[i] = max_retries
              /\ Len(hist[i]) = max_retries
              /\ sleeps[i] = max_retries - 1
              /\ failInc[i] = 1
              /\ procInc[i] = 0

\* C3 witness: a URL has failed three attempts out of three, with two sleeps.
C3_Witness ==
    \E i \in Tasks :
        /\ pc[i] = "done"
        /\ AlwaysFailing(i)
        /\ max_retries = 3
        /\ arun_calls[i] = 3
        /\ sleeps[i] = 2

\* ------------------------------------------------------------------ C4
\* C4 (as claimed): a URL whose Fetch Client fails k < max_retries times and
\* then succeeds ends Succeeded (one increment of processed_urls, none of
\* failed_urls) after exactly k+1 calls of crawler.arun and k sleeps; no
\* call is made after the successful one.
C4_SucceedsAfterKFailures ==
    \A i \in Tasks : \A k \in 0..(max_retries - 1) :
        FailsThenSucceeds(i, k) =>
            /\ pc[i] = "done"
            /\ arun_calls[i] = k + 1
            /\ sleeps[i] = k
            /\ procInc[i] = 1
            /\ failInc[i] = 0

\* ------------------------------------------------------------------ C5
\* C5 (as claimed): a URL whose content the Persistence Sink failed to store
\* (and never stored) counts in failed_urls and not in processed_urls of the
\* returned statistics.
C5_StoreFailureIsFailedCrawl ==
    cpc = "returned" =>
        \A i \in Tasks :
            (\E k \in 1..Len(hist[i]) : hist[i][k] = "storefail")
              /\ (\A k \in 1..Len(hist[i]) : hist[i][k] # "ok")
            => failInc[i] = 1 /\ procInc[i] = 0

\* ------------------------------------------------------------------ C6
\* C6: a URL that exhausts its retries neither aborts the run nor changes
\* another URL's outcome. The statistics are built only when every task has
\* ended and hold the sum of all tasks' increments; while a task has not
\* ended the run can go on; and what a task adds to the counters is a
\* function of what its own attempts met, of nothing another task did.
C6_FailureIsIsolated ==
    /\ cpc = "returned" =>
          /\ \A i \in Tasks : pc[i] = "done"
          /\ stats.processed_urls = SumOver(procInc, Tasks)
          /\ stats.failed_urls = SumOver(failInc, Tasks)
    /\ (\E i \in Tasks : pc[i] # "done") =>
          \/ \E i \in Tasks : pc[i] \in {"in_arun", "sleeping"}
          \/ semaphore > 0
    /\ \A i \in Tasks : pc[i] = "done" =>
          /\ procInc[i] = Cardinality(Successes(hist[i]))
          /\ failInc[i] = IF hist[i][Len(hist[i])] = "ok" THEN 0 ELSE 1
          /\ Len(hist[i]) <= max_retries

\* C6 witness: the run has returned with one URL that exhausted its retries
\* on fetch failures and another that was fetched and stored.
C6_Witness ==
    /\ cpc = "returned"
    /\ \E i, j \in Tasks :
          /\ i # j
          /\ AlwaysFailing(i) /\ failInc[i] = 1
          /\ hist[j] = <<"ok">> /\ procInc[j] = 1 /\ failInc[j] = 0

\* ----------------------------------- helpers of the formulas (resolution)
\* the document the site serves at u, as far as it has been asked for
DocAt(u) == IF u \in SitemapUrls THEN web[u] ELSE Missing

RECURSIVE Flatten(_)
Flatten(ss) == IF ss = <<>> THEN <<>> ELSE Head(ss) \o Flatten(Tail(ss))

\* What the resolution of u is to yield: nothing from a document that
\* failed, the page URLs of a URL set in document order, and for an index
\* the lists of its children one after the other.
RECURSIVE ExpectedUrls(_, _)
ExpectedUrls(u, fuel) ==
    LET d == DocAt(u)
    IN IF fuel = 0 \/ d.kind \in {"fail", "notyet"} THEN <<>>
       ELSE IF d.kind = "urlset" THEN [k \in 1..d.n |-> Page(u, k)]
       ELSE Flatten([k \in 1..Len(d.children) |->
                        ExpectedUrls(d.children[k], fuel - 1)])

Yields(u) == ExpectedUrls(u, Cardinality(SitemapUrls))

\* u is a sitemap index all of whose children are URL sets
IndexOfUrlSets(u) ==
    /\ DocAt(u).kind = "index"
    /\ \A k \in 1..Len(DocAt(u).children) :
          DocAt(DocAt(u).children[k]).kind = "urlset"

\* the page lists of the children of index u, one after the other
ChildrenConcatenated(u) ==
    LET c == DocAt(u).children
    IN Flatten([k \in 1..Len(c) |->
                   [j \in 1..DocAt(c[k]).n |-> Page(c[k], j)]])

RECURSIVE SumSeq(_)
SumSeq(ns) == IF ns = <<>> THEN 0 ELSE Head(ns) + SumSeq(Tail(ns))

Range(f) == {f[k] : k \in DOMAIN f}

DirectReturned == rpc \notin {"idle", "start", "direct"}
Returned == rpc \in {"resolved", "crawl"}

\* the sitemap URL a robots.txt line names
NamedSitemap(line) ==
    CHOOSE u \in SitemapUrls :
        \E i \in 1..(Len(line) - Len(u) + 1) :
            SubSeq(line, i, i + Len(u) - 1) = u

\* the robots.txt lines that are sitemap directives, whatever their case
DirectiveLines ==
    {k \in 1..Len(robots.lines) :
        robots.lines[k][1] \in {"Sitemap:", "SITEMAP:", "sitemap:"}}

\* the directives whose sitemap yields URLs
YieldingLines == {k \in DirectiveLines : Yields(NamedSitemap(robots.lines[k])) # <<>>}

\* the normalized site URL: no trailing slash, https:// when it has no scheme
Normalized(u) ==
    LET v == rstrip_slash(u) IN IF HasScheme(v) THEN v ELSE Https \o v

\* the originally guessed sitemap URL
Guess(u) ==
    IF ContainsSitemap(Normalized(u)) THEN Normalized(u)
    ELSE Normalized(u) \o <<"/", "sitemap.xml">>

\* ------------------------------------------------------------------ C7
\* C7: resolving a sitemap index whose k children are URL sets of n_1..n_k
\* page URLs returns the children's lists one after the other, in the order
\* the index lists the children and in document order within a child: the
\* sum of the n_i URLs. (Both for the direct candidate and for the sitemap
\* check_and_get_sitemap_urls returns.)
C7_IndexConcatenatesChildren ==
    /\ (DirectReturned /\ IndexOfUrlSets(requests[1])) =>
          /\ direct_urls = ChildrenConcatenated(requests[1])
          /\ Len(direct_urls) =
                SumSeq([k \in 1..Len(DocAt(requests[1]).children) |->
                           DocAt(DocAt(requests[1]).children[k]).n])
    /\ (Returned /\ ret.urls # <<>> /\ IndexOfUrlSets(ret.sitemap_url)) =>
          ret.urls = ChildrenConcatenated(ret.sitemap_url)

\* C7 witness: an index listing U3 (2 pages) and then U2 (1 page) has been
\* resolved to 3 URLs.
C7_Witness ==
    /\ Returned
    /\ DocAt(ret.sitemap_url).kind = "index"
    /\ DocAt(ret.sitemap_url).children = <<U3, U2>>
    /\ DocAt(U3) = [kind |-> "urlset", n |-> 2, children |-> <<>>]
    /\ DocAt(U2) = [kind |-> "urlset", n |-> 1, children |-> <<>>]
    /\ Len(ret.urls) = 3

\* ------------------------------------------------------------------ C8
\* C8: a sitemap document that cannot be fetched or parsed, at any level,
\* contributes no URL and takes nothing from its siblings: every finished
\* call of get_urls_from_sitemap has returned what the documents that did
\* load yield; a robots.txt that cannot be fetched leaves the result at the
\* candidate and no URL; and the resolution is never left by an error.
C8_FailureCostsOnlyItsBranch ==
    /\ rpc \in {"start", "direct", "robots", "scan", "alt", "resolved",
                "crawl"}
    /\ DirectReturned => direct_urls = Yields(requests[1])
    /\ (Returned /\ ret.urls # <<>>) => ret.urls = Yields(ret.sitemap_url)
    /\ (Returned /\ robots.status \in {"neterr", "404"}) =>
          ret = [sitemap_url |-> requests[1], urls |-> <<>>]
    /\ \A j \in 1..Len(stack) :
          stack[j].phase = "loop" =>
             stack[j].urls =
                Flatten([k \in 1..(stack[j].idx - 1) |->
                            Yields(stack[j].sitemap_urls[k])])

\* C8 witness: an index whose first child failed and whose second child is
\* a URL set of 2 pages has been resolved to those 2 URLs.
C8_Witness ==
    /\ Returned
    /\ DocAt(ret.sitemap_url).kind = "index"
    /\ DocAt(ret.sitemap_url).children = <<U2, U3>>
    /\ DocAt(U2).kind = "fail"
    /\ DocAt(U3) = [kind |-> "urlset", n |-> 2, children |-> <<>>]
    /\ ret.urls = <<Page(U3, 1), Page(U3, 2)>>

\* ------------------------------------------------------------------ C9
\* C9: robots.txt is requested only when the direct candidate has yielded
\* no URL. When the candidate yields URLs the result is (candidate, those
\* URLs) and robots.txt is never requested. When it yields none and
\* robots.txt has a directive whose sitemap yields URLs, the result is the
\* URL of the first such directive with the URLs it yields, and that URL is
\* requested as it stands.
C9_RobotsFallback ==
    /\ (robots # NoRobots \/ rpc \in {"robots", "scan", "alt"}) =>
          DirectReturned /\ direct_urls = <<>>
    /\ \A k \in 1..Len(requests) :
          requests[k][Len(requests[k])] = "robots.txt" =>
             /\ direct_urls = <<>>
             /\ DirectReturned
             /\ requests[k] = RobotsUrl(Normalized(site))
    /\ (Returned /\ direct_urls # <<>>) =>
          /\ ret = [sitemap_url |-> requests[1], urls |-> direct_urls]
          /\ robots = NoRobots
          /\ \A k \in 1..Len(requests) :
                requests[k][Len(requests[k])] # "robots.txt"
    /\ (Returned /\ direct_urls = <<>> /\ YieldingLines # {}) =>
          LET first == CHOOSE k \in YieldingLines :
                          \A j \in YieldingLines : k <= j
              alt == NamedSitemap(robots.lines[first])
          IN /\ ret = [sitemap_url |-> alt, urls |-> Yields(alt)]
             /\ alt \in Range(requests)

\* C9 witness: the candidate was a 404, robots.txt named U3 after another
\* line, and U3's two URLs were returned with U3.
C9_Witness ==
    /\ Returned
    /\ direct_urls = <<>>
    /\ robots.status = "200"
    /\ Len(robots.lines) = 2
    /\ robots.lines[2] = <<"Sitemap:", " ">> \o U3
    /\ ret = [sitemap_url |-> U3, urls |-> <<Page(U3, 1), Page(U3, 2)>>]

\* ------------------------------------------------------------------ C10
\* C10: when neither the direct candidate nor any sitemap named in
\* robots.txt yields a URL, check_and_get_sitemap_urls returns the
\* originally guessed sitemap URL with an empty list, and main then crawls
\* the one-element list of the base URL it was given (and writes no
\* manifest).
C10_NothingFound ==
    (Returned /\ direct_urls = <<>> /\ YieldingLines = {}) =>
        /\ ret = [sitemap_url |-> Guess(site), urls |-> <<>>]
        /\ rpc = "crawl" => crawl_arg = <<site>> /\ ~manifest.written

\* C10 witness: "a.test", no sitemap at /sitemap.xml and a robots.txt
\* without sitemap directive: ("https://a.test/sitemap.xml", []) and a crawl
\* of ["a.test"].
C10_Witness ==
    /\ rpc = "crawl"
    /\ site = <<"a.test">>
    /\ robots.status = "200"
    /\ robots.lines = << <<"User-agent:", " ", "*">> >>
    /\ ret = [sitemap_url |-> U1, urls |-> <<>>]
    /\ crawl_arg = << <<"a.test">> >>

\* ------------------------------------------------------------------ C11
\* C11 (as claimed): in the robots.txt fallback only the first sitemap
\* directive is ever resolved; a later directive of the same robots.txt is
\* never fetched, whether or not the first one yields URLs.
C11_OnlyFirstDirective ==
    rpc = "alt" => \A j \in DirectiveLines : line_no <= j

\* C11 (amended): the sitemap directives are resolved in the order of the
\* lines until one yields URLs. A directive is resolved only when every
\* directive before it has yielded no URL; the directive that yields URLs
\* ends the scan and no later directive is resolved; a directive that
\* yields none is followed by the next one, down to the last line.
C11_FirstYieldingDirectiveWins ==
    /\ rpc = "alt" =>
          /\ line_no \in DirectiveLines
          /\ alt_sitemap_url = DirectiveUrl(robots.lines[line_no])
          /\ \A j \in DirectiveLines : j < line_no => j \notin YieldingLines
    /\ (Returned /\ robots.status = "200") =>
          /\ IF YieldingLines # {}
             THEN /\ line_no \in YieldingLines
                  /\ \A j \in YieldingLines : line_no <= j
             ELSE line_no = Len(robots.lines) + 1
          /\ \A j \in DirectiveLines : j <= line_no =>
                NamedSitemap(robots.lines[j]) \in Range(requests)

\* C11 witness: the first directive (U3) yielded nothing, the second (U2)
\* was then resolved and its URLs were returned.
C11_Witness ==
    /\ Returned
    /\ robots.lines = << <<"Sitemap:", " ">> \o U3, <<"SITEMAP:">> \o U2 \o <<" ">> >>
    /\ DocAt(U3).kind = "fail"
    /\ ret.sitemap_url = U2
    /\ ret.urls # <<>>

\* ------------------------------------------------------------------ C12
\* C12 (as claimed): every URL given to crawl_parallel causes exactly one
\* counter increment over the whole run: one of processed_urls or one of
\* failed_urls, never two and never both, whatever the Fetch Client and the
\* Persistence Sink do.
C12_OneOutcomePerUrl ==
    \A i \in Tasks :
        /\ procInc[i] + failInc[i] <= 1
        /\ pc[i] = "done" => procInc[i] + failInc[i] = 1

\* ------------------------------------------------------------------ C13
\* C13: resolution is deterministic. A second call of
\* check_and_get_sitemap_urls on the same site URL, against the documents
\* the site served to the first, returns the same sitemap URL and the same
\* URL list in the same order, after the same requests in the same order;
\* nothing the first call left behind changes it.
C13_SecondCallAgrees ==
    (calls = 2 /\ rpc = "resolved") =>
        /\ ret = first_ret
        /\ Len(requests) % 2 = 0
        /\ SubSeq(requests, 1, Len(requests) \div 2) =
              SubSeq(requests, Len(requests) \div 2 + 1, Len(requests))

\* C13 witness: two calls on "a.test" have both gone through robots.txt to
\* U3 and returned its two URLs.
C13_Witness ==
    /\ calls = 2
    /\ rpc = "resolved"
    /\ site = <<"a.test">>
    /\ first_ret = [sitemap_url |-> U3, urls |-> <<Page(U3, 1), Page(U3, 2)>>]
    /\ ret = first_ret
    /\ Len(requests) = 6

\* ------------------------------------------------------------------ C14
\* C14: the shared counters lose no update under any interleaving of the
\* tasks. processed_urls and failed_urls are at all times the number of
\* increments the tasks have made, the progress counts printed are
\* 1, 2, 3, ... with none repeated or skipped, and the statistics returned
\* hold as many successes as progress lines were printed.
C14_NoLostUpdate ==
    /\ processed_urls = SumOver(procInc, Tasks)
    /\ failed_urls = SumOver(failInc, Tasks)
    /\ progress = [k \in 1..processed_urls |-> k]
    /\ cpc = "returned" =>
          /\ stats.processed_urls = Len(progress)
          /\ stats.failed_urls = SumOver(failInc, Tasks)

\* C14 witness: two tasks shared the gate, one succeeded at once and the
\* other on its second attempt; the counts printed were 1 and 2 and the run
\* returned 2.
C14_Witness ==
    /\ max_concurrent = 2
    /\ total_urls = 2
    /\ cpc = "returned"
    /\ hist = << <<"fetchfail", "ok">>, <<"ok">> >>
    /\ progress = <<1, 2>>
    /\ stats.processed_urls = 2

\* ------------------------------------------------------------------ C15
\* C15: a run always completes. Under a fair event loop in which every
\* crawler.arun call and every sleep ends, every task acquires a slot and
\* ends, and crawl_parallel returns its statistics, for every
\* max_concurrent >= 1 and every number of URLs.
C15_RunCompletes ==
    <>(/\ cpc = "returned"
       /\ stats # NoStats
       /\ \A i \in Tasks : pc[i] = "done" /\ arun_calls[i] >= 1)

\* C15 witness: a run of two URLs through a gate of one slot has returned,
\* the first URL having used all its retries.
C15_Witness ==
    /\ cpc = "returned"
    /\ total_urls = 2
    /\ max_concurrent = 1
    /\ failInc[1] = 1
    /\ arun_calls[2] >= 1

\* the tasks between "async with semaphore" and its end
Holding == {i \in Tasks : pc[i] \in {"in_arun", "sleeping"}}

\* ------------------------------------------------------------------ C16
\* C16: every task that acquires a slot releases it exactly once, however
\* it ends. The slots held are at all times as many as the tasks between
\* acquire and release; the semaphore goes up by one in the step in which a
\* task ends, down by one in the step in which a task enters, and changes in
\* no other step; a task that has ended stays ended; and when all tasks
\* have ended all max_concurrent slots are free.
C16_SlotReleasedOnce ==
    /\ [](/\ semaphore = max_concurrent - Cardinality(Holding)
          /\ semaphore \in 0..max_concurrent
          /\ (\A i \in Tasks : pc[i] = "done") => semaphore = max_concurrent)
    /\ [][/\ \A i \in Tasks :
              /\ (pc[i] # "done" /\ pc'[i] = "done") =>
                    pc[i] = "in_arun" /\ semaphore' = semaphore + 1
              /\ (pc[i] = "pending" /\ pc'[i] # "pending") =>
                    semaphore' = semaphore - 1
              /\ pc[i] = "done" => pc'[i] = "done"
           /\ semaphore' # semaphore =>
                 \E j \in Tasks : \/ pc[j] = "pending" /\ pc'[j] # "pending"
                                  \/ pc[j] # "done" /\ pc'[j] = "done"]_vars

\* C16 witness: through a gate of one slot one URL has ended in success and
\* the other in failure after its retries, and the slot is free again.
C16_Witness ==
    /\ max_concurrent = 1
    /\ total_urls = 2
    /\ pc = <<"done", "done">>
    /\ hist[1] = <<"ok">>
    /\ failInc[2] = 1 /\ sleeps[2] >= 1
    /\ semaphore = 1

\* ------------------------------------------------------------------ C17
\* C17: within one URL's task the attempts are strictly sequential. A task
\* has at most one crawler.arun call in progress (the calls started less
\* the attempts finished is 1 while it waits for crawler.arun and 0
\* otherwise); a call is started only by a task that has none in progress,
\* and every call but the first only out of the backoff sleep that followed
\* the attempt before it.
C17_AttemptsSequential ==
    /\ [](\A i \in Tasks :
            /\ arun_calls[i] - Len(hist[i]) =
                  IF pc[i] = "in_arun" THEN 1 ELSE 0
            /\ arun_calls[i] = retry[i] + (IF pc[i] = "pending" THEN 0 ELSE 1)
            /\ sleeps[i] = retry[i] + (IF pc[i] = "sleeping" THEN 1 ELSE 0))
    /\ [][\A i \in Tasks :
            arun_calls'[i] # arun_calls[i] =>
               /\ arun_calls'[i] = arun_calls[i] + 1
               /\ arun_calls[i] = Len(hist[i])
               /\ IF arun_calls[i] = 0 THEN pc[i] = "pending"
                  ELSE pc[i] = "sleeping" /\ sleeps[i] = arun_calls[i]]_vars

\* C17 witness: a task is in its third attempt, two attempts finished and
\* two sleeps behind it.
C17_Witness ==
    \E i \in Tasks :
        /\ pc[i] = "in_arun"
        /\ arun_calls[i] = 3
        /\ Len(hist[i]) = 2
        /\ sleeps[i] = 2

\* ------------------------------------------------------------------ C20
\* C20: a task keeps its slot for its whole retry sequence, the backoff
\* sleeps included. At every instant the URLs that have started their first
\* attempt and not reached a terminal outcome (in crawler.arun, storing, or
\* sleeping before a retry) are at most max_concurrent; a sleep frees no
\* slot; and while they are max_concurrent no pending URL can start, also
\* when all of them are asleep.
C20_SlotKeptThroughRetries ==
    /\ Cardinality(Holding) <= max_concurrent
    /\ \A i \in Tasks : pc[i] = "sleeping" =>
          semaphore <= max_concurrent - 1
    /\ Cardinality(Holding) = max_concurrent =>
          \A i \in Tasks : ~ENABLED Acquire(i)

\* C20 witness: the only slot is held by a URL asleep before its retry
\* while another URL is still pending.
C20_Witness ==
    /\ max_concurrent = 1
    /\ \E i, j \in Tasks :
          /\ pc[i] = "sleeping"
          /\ pc[j] = "pending"
          /\ semaphore = 0

\* ------------------------------------------------------------------ C19
\* C19: the list main passes to crawl_parallel is the full resolver list
\* (the user answered y or Y), its first N entries with N the number typed
\* clamped to 1 <= N <= len(list), or the one-element list of the base URL
\* (the resolver returned nothing, or what was typed is not a number); and
\* whenever the resolver list is not empty the full list has been written
\* as the manifest when the list to crawl is chosen, before any page is
\* fetched.
C19_CrawlListChosen ==
    /\ rpc = "crawl" =>
          IF ret.urls = <<>>
          THEN crawl_arg = <<site>> /\ ~manifest.written
          ELSE /\ manifest = [written |-> TRUE, urls |-> ret.urls]
               /\ IF answers.crawl_all \in {"y", "Y"}
                  THEN crawl_arg = ret.urls
                  ELSE IF ~answers.num_urls.valid
                  THEN crawl_arg = <<site>>
                  ELSE LET v == answers.num_urls.value
                           N == IF v < 1 THEN 1
                                ELSE IF v > Len(ret.urls) THEN Len(ret.urls)
                                ELSE v
                       IN /\ Len(crawl_arg) = N
                          /\ \A k \in 1..N : crawl_arg[k] = ret.urls[k]
    /\ crawl_arg # <<>> => rpc = "crawl" /\ cpc = "idle"
    /\ manifest.written => rpc = "crawl" /\ ret.urls # <<>>

\* C19 witness: of two URLs found the user asked for 0, and the first one
\* alone is crawled, the manifest holding both.
C19_Witness ==
    /\ rpc = "crawl"
    /\ Len(ret.urls) = 2
    /\ answers.crawl_all = "n"
    /\ answers.num_urls = [valid |-> TRUE, value |-> 0]
    /\ crawl_arg = <<ret.urls[1]>>
    /\ manifest.urls = ret.urls

\* ------------------------------------------- helpers of the formulas (C18)
\* the sitemaps the document at u lists, when it is a sitemap index
ChildrenOf(u) ==
    IF DocAt(u).kind = "index" THEN Range(DocAt(u).children) ELSE {}

\* the sitemaps reached from those of S in at most n steps of one or more
RECURSIVE ReachedFrom(_, _)
ReachedFrom(S, n) ==
    IF n = 0 THEN {}
    ELSE LET next == UNION {ChildrenOf(v) : v \in S}
         IN next \cup ReachedFrom(next, n - 1)

\* u is a sitemap index reachable from itself
OnCycle(u) == u \in ReachedFrom({u}, Cardinality(SitemapUrls))

\* get_urls_from_sitemap(sitemap_url) has returned its list to
\* check_and_get_sitemap_urls, which goes on to robots.txt or returns
DirectCallOver == rpc \in {"robots", "resolved"} /\ stack = <<>>

\* how many times u was requested
TimesRequested(u) == Cardinality({k \in 1..Len(requests) : requests[k] = u})

\* ------------------------------------------------------------------ C18
\* C18 (as claimed, the part on cycles): when a sitemap index lists itself,
\* directly or through a chain of child indexes, get_urls_from_sitemap
\* never returns: no call that has requested such an index is ever over.
C18_CycleNeverReturns ==
    ~(/\ DirectCallOver
      /\ \E u \in SitemapUrls : OnCycle(u) /\ TimesRequested(u) > 0)

\* C18 (amended): sitemap resolution terminates on every finite graph of
\* sitemap documents. Where no sitemap index is reachable from itself, no
\* sitemap is requested while a call on it is active and the nesting of the
\* calls stays within the number of sitemaps, short of the interpreter's
\* limit. There is no visited set and no depth cap in the code, so on a
\* cycle the same sitemap URLs are requested again and again, call within
\* call, until the interpreter's limit on nested calls raises
\* RecursionError; that error is caught like any other, the innermost call
\* returns [] and the outermost call returns in its turn.
C18_ResolutionTerminates ==
    /\ <>DirectCallOver
    /\ [](~allow_cycles =>
            /\ Len(stack) <= RecursionLimit
            /\ \A j, k \in 1..Len(stack) :
                  j # k => stack[j].url # stack[k].url
            /\ \A u \in SitemapUrls : ~OnCycle(u))
    /\ [](\A j \in 1..Len(stack) :
            (j > 1 /\ \E k \in 1..(j - 1) : stack[k].url = stack[j].url)
               => OnCycle(stack[j].url))

\* C18 witness: the index U2 lists itself and then the URL set U3; the
\* resolution of "a.test/Sitemap_index.xml/" requested U2 three times, call
\* within call, and returned with U3's page twice over.
C18_Witness ==
    /\ rpc = "resolved"
    /\ DocAt(U2) = [kind |-> "index", n |-> 0, children |-> <<U2, U3>>]
    /\ DocAt(U3) = [kind |-> "urlset", n |-> 1, children |-> <<>>]
    /\ TimesRequested(U2) = 3
    /\ ret = [sitemap_url |-> U2, urls |-> <<Page(U3, 1), Page(U3, 1)>>]

====
